---- MODULE Spec2Model ----
(***************************************************************************)
(* Brand-mention detection of api-gemini-brand-checker.                    *)
(*                                                                         *)
(* A JavaScript string is modelled as a sequence of one-character strings, *)
(* so that indexing, case folding, splitting and cleaning are computed     *)
(* character by character as the code does.                                *)
(***************************************************************************)
EXTENDS Integers, Sequences, FiniteSets, TLC

(***************************************************************************)
(* Bounds of the model.                                                    *)
(***************************************************************************)
MaxItems == 3      \* longest items array handed to findBrandPositions
MaxStrLen == 3     \* longest argument of a direct levenshtein call

(***************************************************************************)
(* Characters.                                                             *)
(***************************************************************************)
UpperChars == <<"A", "B", "C", "D", "E", "F", "G", "H", "I", "J", "K", "L", "M",
                "N", "O", "P", "Q", "R", "S", "T", "U", "V", "W", "X", "Y", "Z">>
LowerChars == <<"a", "b", "c", "d", "e", "f", "g", "h", "i", "j", "k", "l", "m",
                "n", "o", "p", "q", "r", "s", "t", "u", "v", "w", "x", "y", "z">>
DigitChars == <<"0", "1", "2", "3", "4", "5", "6", "7", "8", "9">>

Range(s) == {s[k] : k \in 1..Len(s)}

IsUpper(c) == c \in Range(UpperChars)
IsLower(c) == c \in Range(LowerChars)
\* \d
IsDigit(c) == c \in Range(DigitChars)
\* [a-z0-9] under the i flag
IsAlnum(c) == IsUpper(c) \/ IsLower(c) \/ IsDigit(c)
\* \w, the class that decides \b
IsWordChar(c) == IsAlnum(c) \/ c = "_"
\* \s
WhiteSpace == {" ", "\t", "\n", "\r"}
IsSpace(c) == c \in WhiteSpace

IndexIn(seq, c) == CHOOSE k \in 1..Len(seq) : seq[k] = c

\* String.prototype.toLowerCase on one character
toLowerChar(c) == IF IsUpper(c) THEN LowerChars[IndexIn(UpperChars, c)] ELSE c
\* String.prototype.toLowerCase
toLowerCase(s) == [k \in 1..Len(s) |-> toLowerChar(s[k])]

DigitVal(c) == IndexIn(DigitChars, c) - 1

Min(S) == CHOOSE x \in S : \A y \in S : x <= y
Max2(x, y) == IF x >= y THEN x ELSE y
Min3(x, y, z) == Min({x, y, z})

(***************************************************************************)
(* levenshtein (brandUtils.js 1-18).  The matrix has one row per character *)
(* of b and one column per character of a; it is filled row by row.        *)
(***************************************************************************)
\* The cost with the characters compared as they are.
substitutionCostCaseSensitive(a, b, i, j) ==
  IF a[i] = b[j] THEN 0 ELSE 1

substitutionCost(a, b, i, j) ==
  IF toLowerChar(a[i]) = toLowerChar(b[j]) THEN 0 ELSE 1

\* matrix[0][i] = i
FirstRow(a) == [k \in 1..(Len(a) + 1) |-> k - 1]

\* Row j of the matrix from row j-1 (prev); cur holds matrix[j][0..Len(cur)-1].
RECURSIVE FillRow(_, _, _, _, _)
FillRow(a, b, j, prev, cur) ==
  IF Len(cur) = Len(a) + 1 THEN cur
  ELSE LET i == Len(cur)
       IN FillRow(a, b, j, prev,
                  Append(cur, Min3(cur[i] + 1,
                                   prev[i + 1] + 1,
                                   prev[i] + substitutionCost(a, b, i, j))))

RECURSIVE FillMatrix(_, _, _, _)
FillMatrix(a, b, j, prev) ==
  IF j > Len(b) THEN prev
  ELSE FillMatrix(a, b, j + 1, FillRow(a, b, j, prev, <<j>>))

\* The same function with the first early return answering 0.
levenshteinEmptyAIsZero(a, b) ==
  IF Len(a) = 0 THEN 0
  ELSE IF Len(b) = 0 THEN Len(a)
  ELSE FillMatrix(a, b, 1, FirstRow(a))[Len(a) + 1]

levenshtein(a, b) ==
  IF Len(a) = 0 THEN Len(b)
  ELSE IF Len(b) = 0 THEN Len(a)
  ELSE FillMatrix(a, b, 1, FirstRow(a))[Len(a) + 1]

\* Number of iterations of the inner matrix loop (lines 7-15) a call makes:
\* none after an early return of line 2 or 3.
matrixIterations(a, b) ==
  IF Len(a) = 0 THEN 0
  ELSE IF Len(b) = 0 THEN 0
  ELSE Len(b) * Len(a)

(***************************************************************************)
(* Pieces of findBrandPositions (brandUtils.js 54-97).                     *)
(***************************************************************************)
\* Length of the longest run of characters of class S starting at index from.
RunLen(s, from, S) ==
  LET stops == {k \in from..Len(s) : s[k] \notin S}
  IN IF stops = {} THEN Max2(Len(s) - from + 1, 0) ELSE Min(stops) - from

RECURSIVE parseInt(_)
parseInt(ds) ==
  IF ds = <<>> THEN 0
  ELSE 10 * parseInt(SubSeq(ds, 1, Len(ds) - 1)) + DigitVal(ds[Len(ds)])

\* item.match(/^\s*(\d+)[\.)]\s*/): the match as a record, matched FALSE for null.
numMatch(item) ==
  LET ws == RunLen(item, 1, WhiteSpace)
      ds == RunLen(item, ws + 1, Range(DigitChars))
      close == ws + ds + 1
      ok == ds >= 1 /\ close <= Len(item) /\ item[close] \in {".", ")"}
  IN IF ok
     THEN [matched |-> TRUE,
           digits |-> SubSeq(item, ws + 1, ws + ds),
           length |-> close + RunLen(item, close + 1, WhiteSpace)]
     ELSE [matched |-> FALSE, digits |-> <<>>, length |-> 0]

\* \b before index k (k in 1..Len(s)+1)
WordBoundary(s, k) ==
  LET left == k > 1 /\ IsWordChar(s[k - 1])
      right == k <= Len(s) /\ IsWordChar(s[k])
  IN left # right

\* Case-insensitive literal occurrence of w in s starting at index p
MatchesAt(s, w, p) ==
  /\ p + Len(w) - 1 <= Len(s)
  /\ \A k \in 1..Len(w) : toLowerChar(s[p + k - 1]) = toLowerChar(w[k])

\* new RegExp(`\\b${escapeForRegex(brand)}\\b`, 'i').test(item): the escaped
\* brand matches itself literally.
regexTest(brand, item) ==
  \E p \in 1..(Len(item) + 1) :
    /\ WordBoundary(item, p)
    /\ MatchesAt(item, brand, p)
    /\ WordBoundary(item, p + Len(brand))

\* String.prototype.includes
includes(s, w) ==
  \E p \in 1..(Len(s) + 1) :
    /\ p + Len(w) - 1 <= Len(s)
    /\ SubSeq(s, p, p + Len(w) - 1) = w

\* item.split(/\s+/)
RECURSIVE SplitWs(_, _, _, _)
SplitWs(s, k, cur, acc) ==
  IF k > Len(s) THEN Append(acc, cur)
  ELSE IF IsSpace(s[k])
       THEN IF k > 1 /\ IsSpace(s[k - 1])
            THEN SplitWs(s, k + 1, cur, acc)
            ELSE SplitWs(s, k + 1, <<>>, Append(acc, cur))
       ELSE SplitWs(s, k + 1, Append(cur, s[k]), acc)

\* t.replace(/[^a-z0-9]/gi, '')
stripNonAlnum(t) == SelectSeq(t, IsAlnum)

\* item.split(/\s+/).map(t => t.replace(/[^a-z0-9]/gi, ''))
tokensOf(item) ==
  LET raw == SplitWs(item, 1, <<>>, <<>>)
  IN [k \in 1..Len(raw) |-> stripNonAlnum(raw[k])]

\* brandLower.replace(/[^a-z0-9]/gi, '')
brandCleanOf(b) == stripNonAlnum(toLowerCase(b))

\* Math.max(1, Math.floor(brandClean.length * 0.25))
threshold(bc) == Max2(1, Len(bc) \div 4)

\* The test with a strict comparison.
tokenAcceptedStrict(t, bc) ==
  levenshtein(toLowerCase(t), toLowerCase(bc)) < Max2(2, threshold(bc))

\* dist <= Math.max(2, threshold)
tokenAccepted(t, bc) ==
  levenshtein(toLowerCase(t), toLowerCase(bc)) <= Max2(2, threshold(bc))

\* The pushed value with the rank ignored.
rankOrIndexNoRank(rank, i) == i + 1

\* The pushed value with rank written where i was meant.
rankOrIndexFromRank(rank, i) == IF rank # 0 /\ rank > 0 THEN rank ELSE rank + 1

\* if (currentRank && currentRank > 0) positions.push(currentRank); else positions.push(i + 1)
rankOrIndex(rank, i) == IF rank # 0 /\ rank > 0 THEN rank ELSE i + 1

\* The update with the rank dropped at an item that carries no marker.
rankAfterReset(item, rank) ==
  LET m == numMatch(item)
  IN IF m.matched THEN parseInt(m.digits) ELSE 0

\* if (numMatch) currentRank = parseInt(numMatch[1], 10)
rankAfter(item, rank) ==
  LET m == numMatch(item)
  IN IF m.matched THEN parseInt(m.digits) ELSE rank

\* The fuzzy push recording the rank like the other two steps.
fuzzyPositionRanked(rank, i) == rankOrIndex(rank, i)

\* positions.push(i + 1) of the fuzzy step
fuzzyPosition(rank, i) == i + 1

(***************************************************************************)
(* splitIntoItems (brandUtils.js 45-52).                                   *)
(***************************************************************************)
\* text.split(/\r?\n/)
RECURSIVE SplitLines(_, _, _, _)
SplitLines(s, k, cur, acc) ==
  IF k > Len(s) THEN Append(acc, cur)
  ELSE IF s[k] = "\r" /\ k + 1 <= Len(s) /\ s[k + 1] = "\n"
       THEN SplitLines(s, k + 2, <<>>, Append(acc, cur))
       ELSE IF s[k] = "\n"
            THEN SplitLines(s, k + 1, <<>>, Append(acc, cur))
            ELSE SplitLines(s, k + 1, Append(cur, s[k]), acc)

\* text.split(/,|;|\n/)
RECURSIVE SplitDelims(_, _, _, _)
SplitDelims(s, k, cur, acc) ==
  IF k > Len(s) THEN Append(acc, cur)
  ELSE IF s[k] \in {",", ";", "\n"}
       THEN SplitDelims(s, k + 1, <<>>, Append(acc, cur))
       ELSE SplitDelims(s, k + 1, Append(cur, s[k]), acc)

\* String.prototype.trim
trim(s) ==
  LET keep == {k \in 1..Len(s) : ~IsSpace(s[k])}
  IN IF keep = {} THEN <<>>
     ELSE SubSeq(s, Min(keep), CHOOSE x \in keep : \A y \in keep : y <= x)

NonEmpty(s) == s # <<>>

\* The pipeline without the filter.
trimAndFilterNoFilter(parts) == [k \in 1..Len(parts) |-> trim(parts[k])]

\* .map(l => l.trim()).filter(Boolean)
trimAndFilter(parts) == SelectSeq([k \in 1..Len(parts) |-> trim(parts[k])], NonEmpty)

\* The function re-splitting only when no line was found.
splitIntoItemsOnlyWhenNone(text) ==
  IF text = <<>> THEN <<>>
  ELSE LET ls == trimAndFilter(SplitLines(text, 1, <<>>, <<>>))
       IN IF Len(ls) < 1
          THEN trimAndFilter(SplitDelims(text, 1, <<>>, <<>>))
          ELSE ls

splitIntoItems(text) ==
  IF text = <<>> THEN <<>>
  ELSE LET lines == trimAndFilter(SplitLines(text, 1, <<>>, <<>>))
       IN IF Len(lines) <= 1
          THEN trimAndFilter(SplitDelims(text, 1, <<>>, <<>>))
          ELSE lines

\* Array.prototype.join
RECURSIVE join(_, _)
join(parts, sep) ==
  IF parts = <<>> THEN <<>>
  ELSE IF Len(parts) = 1 THEN parts[1]
  ELSE parts[1] \o sep \o join(Tail(parts), sep)

(***************************************************************************)
(* JavaScript values of a provider payload: a record of the type tag t and *)
(* the content v.  An object is the sequence of its <<key, value>> pairs   *)
(* in insertion order, a key being a string of characters.                 *)
(***************************************************************************)
JUndef == [t |-> "undefined", v |-> <<>>]
JNull == [t |-> "null", v |-> <<>>]
JStr(s) == [t |-> "string", v |-> s]
JNum(n) == [t |-> "number", v |-> n]
JArr(a) == [t |-> "array", v |-> a]
JObj(ps) == [t |-> "object", v |-> ps]

k_data == <<"d", "a", "t", "a">>
k_candidates == <<"c", "a", "n", "d", "i", "d", "a", "t", "e", "s">>
k_content == <<"c", "o", "n", "t", "e", "n", "t">>
k_parts == <<"p", "a", "r", "t", "s">>
k_text == <<"t", "e", "x", "t">>
k_output == <<"o", "u", "t", "p", "u", "t">>
k_result == <<"r", "e", "s", "u", "l", "t">>
k_output_text == <<"o", "u", "t", "p", "u", "t", "_", "t", "e", "x", "t">>
k_choices == <<"c", "h", "o", "i", "c", "e", "s">>
k_message == <<"m", "e", "s", "s", "a", "g", "e">>
k_length == <<"l", "e", "n", "g", "t", "h">>
k_role == <<"r", "o", "l", "e">>

\* ToBoolean
Truthy(x) ==
  CASE x.t \in {"undefined", "null"} -> FALSE
    [] x.t = "string" -> x.v # <<>>
    [] x.t = "number" -> x.v # 0
    [] OTHER -> TRUE

\* Reading a property of undefined or null throws a TypeError
Readable(x) == x.t \notin {"undefined", "null"}

\* x[k] for a readable x
Get(x, k) ==
  IF x.t = "object"
  THEN LET hits == {n \in 1..Len(x.v) : x.v[n][1] = k}
       IN IF hits = {} THEN JUndef ELSE x.v[Min(hits)][2]
  ELSE IF x.t \in {"array", "string"} /\ k = k_length THEN JNum(Len(x.v))
  ELSE JUndef

\* x[0] for a readable x
First(x) ==
  IF x.t = "array" THEN (IF x.v = <<>> THEN JUndef ELSE x.v[1])
  ELSE IF x.t = "string" THEN (IF x.v = <<>> THEN JUndef ELSE JStr(<<x.v[1]>>))
  ELSE JUndef

\* typeof x === 'string'
IsString(x) == x.t = "string"
\* Array.isArray(x)
IsArray(x) == x.t = "array"

\* Number.prototype.toString of an integer
RECURSIVE numberToString(_)
numberToString(n) ==
  IF n < 0 THEN <<"-">> \o numberToString(0 - n)
  ELSE IF n < 10 THEN <<DigitChars[n + 1]>>
  ELSE numberToString(n \div 10) \o <<DigitChars[(n % 10) + 1]>>

objectObject == <<"[", "o", "b", "j", "e", "c", "t", " ", "O", "b", "j", "e", "c", "t", "]">>

\* The string Array.prototype.join makes of an element
RECURSIVE joinElement(_)
joinElement(x) ==
  CASE x.t \in {"undefined", "null"} -> <<>>
    [] x.t = "string" -> x.v
    [] x.t = "number" -> numberToString(x.v)
    [] x.t = "array" -> join([n \in 1..Len(x.v) |-> joinElement(x.v[n])], <<",">>)
    [] OTHER -> objectObject

\* xs.join(sep) of an array of values
joinValues(xs, sep) == join([n \in 1..Len(xs) |-> joinElement(xs[n])], sep)

\* The quoted form of a string in JSON
RECURSIVE jsonEscape(_)
jsonEscape(s) ==
  IF s = <<>> THEN <<>>
  ELSE (CASE Head(s) = "\"" -> <<"\\", "\"">>
          [] Head(s) = "\\" -> <<"\\", "\\">>
          [] Head(s) = "\n" -> <<"\\", "n">>
          [] Head(s) = "\r" -> <<"\\", "r">>
          [] Head(s) = "\t" -> <<"\\", "t">>
          [] OTHER -> <<Head(s)>>) \o jsonEscape(Tail(s))
jsonQuote(s) == <<"\"">> \o jsonEscape(s) \o <<"\"">>

\* JSON.stringify(x) for x other than undefined
RECURSIVE stringify(_)
stringify(x) ==
  CASE x.t = "string" -> jsonQuote(x.v)
    [] x.t = "number" -> numberToString(x.v)
    [] x.t = "array" ->
         <<"[">> \o join([n \in 1..Len(x.v) |->
                            IF x.v[n].t = "undefined" THEN <<"n", "u", "l", "l">>
                            ELSE stringify(x.v[n])], <<",">>) \o <<"]">>
    [] x.t = "object" ->
         LET kept == SelectSeq(x.v, LAMBDA pr : pr[2].t # "undefined")
         IN <<"{">> \o join([n \in 1..Len(kept) |->
                               jsonQuote(kept[n][1]) \o <<":">> \o stringify(kept[n][2])],
                            <<",">>) \o <<"}">>
    [] OTHER -> <<"n", "u", "l", "l">>

\* The outcome of an evaluation: a value, or a thrown TypeError
Value(x) == [threw |-> FALSE, val |-> x]
Threw == [threw |-> TRUE, val |-> JUndef]

(***************************************************************************)
(* extractTextFromApiResponse (brandUtils.js 20-43).                       *)
(***************************************************************************)
\* c => (c.text || c) over the parts of o.content, lines 31
contentPartTexts(parts) ==
  [n \in 1..Len(parts) |->
     IF Truthy(Get(parts[n], k_text)) THEN Get(parts[n], k_text) ELSE parts[n]]

\* if (data.output_text) left out
outputTextProbeMissing(data) == FALSE

\* if (data.output_text), line 25
outputTextProbe(data) == Truthy(Get(data, k_output_text))

\* The body of the try block, lines 22-39
extractTry(resp) ==
  IF ~Truthy(resp) THEN Value(JStr(<<>>))
  ELSE
    LET data == IF Truthy(Get(resp, k_data)) THEN Get(resp, k_data) ELSE resp
        output == Get(data, k_output)
        o == First(output)
        choices == Get(data, k_choices)
        ch == First(choices)
        outputProbed == Truthy(output) /\ IsArray(output) /\ Truthy(Get(output, k_length))
        choicesProbed == Truthy(choices) /\ Truthy(Get(choices, k_length))
        afterOutput ==
          IF choicesProbed
          THEN IF ~Readable(ch) THEN Threw
               ELSE IF Truthy(Get(ch, k_text)) THEN Value(Get(ch, k_text))
               ELSE IF Truthy(Get(ch, k_message)) /\ Truthy(Get(Get(ch, k_message), k_content))
                    THEN Value(Get(Get(ch, k_message), k_content))
                    ELSE Value(JStr(stringify(data)))
          ELSE Value(JStr(stringify(data)))
    IN IF IsString(data) THEN Value(data)
       ELSE IF outputTextProbe(data) THEN Value(Get(data, k_output_text))
       ELSE IF outputProbed
            THEN IF IsString(o) THEN Value(o)
                 ELSE IF ~Readable(o) THEN Threw
                 ELSE IF Truthy(Get(o, k_content))
                      THEN IF IsString(Get(o, k_content)) THEN Value(Get(o, k_content))
                           ELSE IF IsArray(Get(o, k_content))
                                THEN IF \E n \in 1..Len(Get(o, k_content).v) :
                                          ~Readable(Get(o, k_content).v[n])
                                     THEN Threw
                                     ELSE Value(JStr(joinValues(
                                            contentPartTexts(Get(o, k_content).v), <<"\n">>)))
                                ELSE afterOutput
                      ELSE afterOutput
            ELSE afterOutput

\* try { ... } catch (e) { return ''; }
extractTextFromApiResponse(resp) ==
  IF extractTry(resp).threw THEN JStr(<<>>) ELSE extractTry(resp).val

(***************************************************************************)
(* Inputs.                                                                 *)
(***************************************************************************)
item_1AcmeCorp == <<"1", ".", " ", "A", "c", "m", "e", " ", "C", "o", "r", "p">>
item_2OtherCo == <<"2", ".", " ", "O", "t", "h", "e", "r", " ", "C", "o">>
item_AcmeAgain == <<"A", "c", "m", "e", " ", "a", "g", "a", "i", "n">>
item_3BigAcneInc == <<"3", ")", " ", "b", "i", "g", " ", "A", "c", "n", "e", " ", "i", "n", "c">>
item_ToBe == <<"t", "o", " ", "b", "e">>
item_QqZzzz == <<"?", "?", " ", "z", "z", "z", "z">>
item_MegaAcme == <<"M", "e", "g", "a", "A", "c", "m", "e">>

ItemPool == {item_1AcmeCorp, item_2OtherCo, item_AcmeAgain, item_3BigAcneInc,
             item_ToBe, item_QqZzzz, item_MegaAcme}

brand_Acme == <<"A", "c", "m", "e">>
brand_ACME == <<"A", "C", "M", "E">>
brand_Dashes == <<"-", "-">>
brand_Empty == <<>>
brand_One == <<"1">>
brand_ab == <<"a", "b">>

BrandPool == {brand_Acme, brand_ACME, brand_Dashes, brand_Empty, brand_One, brand_ab}

BoundedSeqs(S, n) == UNION {[1..k -> S] : k \in 0..n}

(***************************************************************************)
(* State.                                                                  *)
(***************************************************************************)
VARIABLES
  pc,           \* where control is
  items,        \* findBrandPositions: the items argument
  brand,        \* findBrandPositions: the brand argument
  i,            \* findBrandPositions: the loop index (0-based)
  currentRank,  \* findBrandPositions: let currentRank
  positions,    \* findBrandPositions: const positions
  tokens,       \* findBrandPositions: const tokens of the item in the fuzzy step
  ti,           \* number of tokens of that item already passed by the for-of loop
  kind,         \* history: the step that settled each item
  contrib,      \* history: the values each item pushed onto positions
  req,          \* check: req.body
  keySet,       \* check: GEMINI_API_KEY is configured
  text,         \* check: let text
  resp,         \* check: the response sent
  provider,     \* check: "none", or how axios.post ended: "answered", "failed"
  payload,      \* check: apiResp.data
  thrown,       \* check: a TypeError was thrown inside the try block
  failure,      \* check: the err the provider call threw
  la, lb,       \* arguments of a direct levenshtein call
  lres,         \* results of levenshtein(la, lb) and levenshtein(lb, la)
  lloop,        \* history: matrix loop iterations of each of these calls
  stext,        \* argument of a direct splitIntoItems call
  lines,        \* splitIntoItems: let lines, the value returned
  results,      \* history: the arguments and the value returned of each pipeline call
  nresp,        \* argument of a direct extractTextFromApiResponse call
  nout,         \* the value that call returned
  googleModel,  \* index.js: GOOGLE_MODEL
  route,        \* index.js: the branch of /api/check that runs the model loop
  modelsToTry,  \* index.js: const modelsToTry
  mi,           \* index.js: number of entries of modelsToTry the for-of loop has passed
  apiRespSet,   \* index.js: apiResp has been assigned
  lastError,    \* index.js: let lastError
  caught,       \* index.js: the err of catch (err)
  mresp,        \* index.js: the response sent by the catch block
  attempts      \* history: the generateContent attempts of the request

matchVars == <<items, brand, i, currentRank, positions, tokens, ti, kind, contrib>>
checkVars == <<req, keySet, text, resp, provider, payload, thrown, failure>>
levVars == <<la, lb, lres, lloop>>
splitVars == <<stext, lines>>
callVars == <<results>>
normVars == <<nresp, nout>>
loopVars == <<googleModel, route, modelsToTry, mi, apiRespSet, lastError, caught, mresp, attempts>>
vars == <<pc, matchVars, checkVars, levVars, splitVars, callVars, normVars, loopVars>>

NoReq == [hasPrompt |-> FALSE, prompt |-> <<>>, hasBrand |-> FALSE, brand |-> <<>>]
NullPosition == [null |-> TRUE, val |-> 0]
\* An err without response
NoErr == [hasResponse |-> FALSE, status |-> 0, hasDetails |-> FALSE,
          reasons |-> <<>>, message |-> <<>>]
NoResp == [status |-> 0, hasMatch |-> FALSE, mentioned |-> "absent",
           positions |-> <<>>, position |-> NullPosition]

\* Entry of findBrandPositions: lines 55-57
Enter(its, b) ==
  /\ items = its
  /\ brand = b
  /\ i = 0
  /\ currentRank = 0
  /\ positions = <<>>
  /\ tokens = <<>>
  /\ ti = 0
  /\ kind = [k \in 1..Len(its) |-> "pending"]
  /\ contrib = [k \in 1..Len(its) |-> <<>>]

CheckIdle ==
  /\ req = NoReq /\ keySet = FALSE /\ text = JStr(<<>>) /\ resp = NoResp
  /\ provider = "none" /\ payload = JUndef /\ thrown = FALSE /\ failure = NoErr
LevIdle == la = <<>> /\ lb = <<>> /\ lres = <<>> /\ lloop = <<>>
SplitIdle == stext = <<>> /\ lines = <<>>
CallIdle == results = <<>>
NormIdle == nresp = JUndef /\ nout = JUndef
NoModel == [prefixed |-> FALSE, base |-> ""]
NoLastError == [null |-> TRUE, err |-> NoErr]
NoModelResp == [status |-> 0, mentioned |-> "absent", positions |-> <<>>,
                position |-> NullPosition, providerStatus |-> 0, providerDetail |-> NoErr]
LoopIdle ==
  /\ googleModel = NoModel /\ route = "none" /\ modelsToTry = <<>> /\ mi = 0
  /\ apiRespSet = FALSE /\ lastError = NoLastError /\ caught = NoLastError
  /\ mresp = NoModelResp /\ attempts = <<>>

\* findBrandPositions called on its own
Init ==
  /\ pc = "item"
  /\ \E its \in BoundedSeqs(ItemPool, MaxItems), b \in BrandPool : Enter(its, b)
  /\ CheckIdle
  /\ LevIdle
  /\ SplitIdle
  /\ CallIdle
  /\ NormIdle
  /\ LoopIdle

\* positions.push(v) by item i, and the history of it
Push(v) ==
  /\ positions' = Append(positions, v)
  /\ contrib' = [contrib EXCEPT ![i + 1] = Append(@, v)]

\* continue / break out of the token loop: on to the next item
NextItem(k) ==
  /\ kind' = [kind EXCEPT ![i + 1] = k]
  /\ i' = i + 1
  /\ pc' = "item"
  /\ tokens' = <<>>
  /\ ti' = 0

\* One iteration of the for loop up to the token loop: lines 58-83
BeginItem ==
  /\ pc = "item"
  /\ i < Len(items)
  /\ LET item == items[i + 1]
         itemLower == toLowerCase(item)
         brandLower == toLowerCase(brand)
         rank == rankAfter(item, currentRank)
     IN /\ currentRank' = rank
        /\ IF regexTest(brand, item)
           THEN Push(rankOrIndex(rank, i)) /\ NextItem("exact")
           ELSE IF includes(itemLower, brandLower)
                THEN Push(rankOrIndex(rank, i)) /\ NextItem("substring")
                ELSE /\ tokens' = tokensOf(item)
                     /\ ti' = 0
                     /\ pc' = "token"
                     /\ UNCHANGED <<i, positions, kind, contrib>>
  /\ UNCHANGED <<items, brand, checkVars, levVars, splitVars, callVars, normVars, loopVars>>

\* One iteration of for (const t of tokens): lines 84-94
TokenStep ==
  /\ pc = "token"
  /\ ti < Len(tokens)
  /\ LET t == tokens[ti + 1]
         brandClean == brandCleanOf(brand)
     IN IF t = <<>>
        THEN /\ ti' = ti + 1
             /\ UNCHANGED <<pc, i, positions, tokens, kind, contrib>>
        ELSE IF tokenAccepted(t, brandClean)
             THEN Push(fuzzyPosition(currentRank, i)) /\ NextItem("fuzzy")
             ELSE /\ ti' = ti + 1
                  /\ UNCHANGED <<pc, i, positions, tokens, kind, contrib>>
  /\ UNCHANGED <<items, brand, currentRank, checkVars, levVars, splitVars, callVars, normVars, loopVars>>

\* The token loop runs out: the item pushed nothing
EndTokens ==
  /\ pc = "token"
  /\ ti = Len(tokens)
  /\ NextItem("none")
  /\ UNCHANGED <<items, brand, currentRank, positions, contrib, checkVars, levVars, splitVars, callVars, normVars, loopVars>>

\* return positions: line 96
Return ==
  /\ pc = "item"
  /\ i = Len(items)
  /\ pc' = "returned"
  /\ UNCHANGED <<matchVars, checkVars, levVars, splitVars, callVars, normVars, loopVars>>

Next == BeginItem \/ TokenStep \/ EndTokens \/ Return

Spec == Init /\ [][Next]_vars

(***************************************************************************)
(* exports.check (controllers/checkController.js).                         *)
(***************************************************************************)
cannedFallback == <<"N", "o", " ", "c", "l", "e", "a", "r", " ", "b", "r", "a", "n", "d", " ",
                    "m", "e", "n", "t", "i", "o", "n", "s", " ", "f", "o", "u", "n", "d", ".">>

prompt_x == <<"x">>
ReqPool ==
  {[hasPrompt |-> hp, prompt |-> p, hasBrand |-> hb, brand |-> b] :
     hp \in BOOLEAN, p \in {<<>>, prompt_x}, hb \in BOOLEAN,
     b \in {<<>>, brand_Acme, brand_Dashes, brand_ab}}
\* A request the program can receive: an absent field carries no value.
WellFormedReq(r) ==
  /\ ~r.hasPrompt => r.prompt = <<>>
  /\ ~r.hasBrand => r.brand = <<>>

\* !prompt && !brand
missingPromptAndBrand(r) ==
  /\ ~r.hasPrompt \/ r.prompt = <<>>
  /\ ~r.hasBrand \/ r.brand = <<>>

\* !prompt || !brand, line 15
missingPromptOrBrand(r) ==
  \/ ~r.hasPrompt \/ r.prompt = <<>>
  \/ ~r.hasBrand \/ r.brand = <<>>

text_list == <<"1", ".", " ", "A", "c", "m", "e", " ", "C", "o", "r", "p", "\n",
               "2", ".", " ", "O", "t", "h", "e", "r", " ", "C", "o", "\n",
               "A", "c", "m", "e", " ", "a", "g", "a", "i", "n">>
text_commas == <<"A", "c", "m", "e", ",", " ", "G", "l", "o", "b", "e", "x", ";", " ",
                 "A", "c", "n", "e">>
text_Globex == <<"G", "l", "o", "b", "e", "x">>
text_model == <<"m", "o", "d", "e", "l">>

\* Provider payloads (apiResp.data): an object made of one choice for the
\* candidates field, one for the result field and one for the other fields.
Field(k, x) == <<k, x>>
Candidate(ps) == JArr(<<JObj(ps)>>)
PartsOf(xs) == JObj(<<Field(k_parts, xs)>>)

CandidatesChoices ==
  << <<>>,
     <<Field(k_candidates, JArr(<<>>))>>,
     <<Field(k_candidates, JArr(<<JNull>>))>>,
     <<Field(k_candidates, Candidate(<<
         Field(k_content, PartsOf(JArr(<<JObj(<<Field(k_text, JStr(item_1AcmeCorp))>>),
                                         JObj(<<>>),
                                         JObj(<<Field(k_text, JStr(item_ToBe))>>)>>))),
         Field(k_text, JStr(text_Globex)),
         Field(k_output, JStr(text_Globex))>>))>>,
     <<Field(k_candidates, Candidate(<<
         Field(k_content, PartsOf(JArr(<<JObj(<<>>)>>)))>>))>>,
     <<Field(k_candidates, Candidate(<<
         Field(k_content, PartsOf(JArr(<<JNull>>)))>>))>>,
     <<Field(k_candidates, Candidate(<<
         Field(k_content, PartsOf(JStr(brand_ab)))>>))>>,
     <<Field(k_candidates, JArr(<<
         JObj(<<Field(k_text, JStr(item_AcmeAgain)), Field(k_output, JStr(text_Globex))>>),
         JObj(<<Field(k_text, JStr(item_MegaAcme))>>)>>))>>,
     <<Field(k_candidates, Candidate(<<Field(k_text, JNum(42))>>))>>,
     <<Field(k_candidates, Candidate(<<
         Field(k_output, JStr(item_3BigAcneInc)),
         Field(k_content, JStr(text_Globex))>>))>>,
     <<Field(k_candidates, Candidate(<<Field(k_content, JStr(brand_Acme))>>))>>,
     <<Field(k_candidates, Candidate(<<
         Field(k_content, JObj(<<Field(k_text, JStr(item_MegaAcme))>>))>>))>>,
     <<Field(k_candidates, Candidate(<<
         Field(k_content, JObj(<<Field(k_role, JStr(text_model))>>))>>))>>,
     <<Field(k_candidates, Candidate(<<>>))>> >>

ResultChoices ==
  << <<>>,
     <<Field(k_result, JObj(<<Field(k_output, JStr(text_commas))>>))>>,
     <<Field(k_result, JObj(<<>>))>> >>

OtherChoices ==
  << <<>>,
     <<Field(k_output_text, JStr(text_list))>>,
     <<Field(k_output_text, JNum(42))>>,
     <<Field(k_output, JArr(<<JObj(<<
         Field(k_content, JArr(<<JObj(<<Field(k_text, JStr(brand_Acme))>>),
                                 JStr(text_Globex)>>))>>)>>))>>,
     <<Field(k_choices, JArr(<<JObj(<<Field(k_text, JStr(item_AcmeAgain))>>)>>))>>,
     <<Field(k_choices, JArr(<<JObj(<<
         Field(k_message, JObj(<<Field(k_content, JStr(brand_Acme))>>))>>)>>))>>,
     <<Field(k_choices, JArr(<<JNull>>))>> >>

PayloadPool ==
  {JObj(CandidatesChoices[c] \o ResultChoices[r] \o OtherChoices[o]) :
     c \in 1..Len(CandidatesChoices), r \in 1..Len(ResultChoices), o \in 1..Len(OtherChoices)}
  \cup {JNull, JStr(<<>>), JStr(text_list)}

\* candidate.content.parts.filter((p) => p.text).map((p) => p.text), lines 54-56
partTexts(parts) ==
  LET withText == SelectSeq(parts, LAMBDA q : Truthy(Get(q, k_text)))
  IN [n \in 1..Len(withText) |-> Get(withText[n], k_text)]

\* lines 47-71: the text taken from the first candidate
candidateText(candidate) ==
  LET content == Get(candidate, k_content)
      parts == Get(content, k_parts)
  IN IF ~Readable(candidate) THEN Threw
     ELSE IF Truthy(content) /\ Truthy(parts) /\ Truthy(Get(parts, k_length))
          THEN IF ~IsArray(parts) THEN Threw
               ELSE IF \E n \in 1..Len(parts.v) : ~Readable(parts.v[n]) THEN Threw
               ELSE Value(JStr(joinValues(partTexts(parts.v), <<"\n">>)))
     ELSE IF Truthy(Get(candidate, k_text)) THEN Value(Get(candidate, k_text))
     ELSE IF Truthy(Get(candidate, k_output)) THEN Value(Get(candidate, k_output))
     ELSE IF Truthy(content)
          THEN IF IsString(content) THEN Value(content)
               ELSE IF Truthy(Get(content, k_text)) THEN Value(Get(content, k_text))
               ELSE Value(JStr(stringify(content)))
     ELSE Value(JStr(stringify(candidate)))

\* lines 45-79: the text taken from the provider's answer apiResp = { data: d }
textOfPayload(d) ==
  IF ~Truthy(d) THEN Value(JStr(cannedFallback))
  ELSE LET candidates == Get(d, k_candidates)
           result == Get(d, k_result)
       IN IF Truthy(candidates) /\ Truthy(Get(candidates, k_length))
          THEN candidateText(First(candidates))
          ELSE IF Truthy(result) /\ Truthy(Get(result, k_output))
               THEN Value(Get(result, k_output))
               ELSE Value(extractTextFromApiResponse(JObj(<<Field(k_data, d)>>)))

\* splitIntoItems(text) of line 84 on any value: a truthy value that is not a
\* string has no split method
splitIntoItemsOf(x) ==
  IF ~Truthy(x) THEN Value(JArr(<<>>))
  ELSE IF IsString(x) THEN Value(JArr(splitIntoItems(x.v)))
  ELSE Threw

\* Provider failures (the err caught at line 98):
\*   hasResponse  err.response.data is present
\*   status       err.response.status (0: absent)
\*   reasons      the reason of each entry of err.response.data.error.details
\*                (<<>> for an entry without reason); hasDetails FALSE: no array
\*   message      err.response.data.error.message (<<>>: absent)
msg_key == <<"A", "P", "I", " ", "k", "e", "y", " ", "n", "o", "t", " ", "v", "a", "l", "i", "d">>
msg_quota == <<"Q", "u", "o", "t", "a", " ", "e", "x", "c", "e", "e", "d", "e", "d">>
str_api_key_sp == <<"a", "p", "i", " ", "k", "e", "y">>
str_api_key_us == <<"a", "p", "i", "_", "k", "e", "y">>
str_api_key_da == <<"a", "p", "i", "-", "k", "e", "y">>

\* An entry of error.details: null, or an object with a reason ("" for none)
Detail(r) == [null |-> FALSE, reason |-> r]
NullDetail == [null |-> TRUE, reason |-> ""]

\* The error thrown by the provider call: whether it has a response with an
\* error body, the response's status (0 for none), whether error.details is an
\* array, its entries, and error.message (<<>> for none).
ProviderErr(hr, st, hd, rs, m) ==
  [hasResponse |-> hr, status |-> st, hasDetails |-> hd, reasons |-> rs, message |-> m]
ErrPool ==
  {ProviderErr(FALSE, 0, FALSE, <<>>, <<>>),
   ProviderErr(TRUE, 400, TRUE, <<Detail(""), Detail("API_KEY_INVALID")>>, msg_key),
   ProviderErr(TRUE, 400, TRUE, <<Detail("API_KEY_INVALID")>>, msg_quota),
   ProviderErr(TRUE, 400, FALSE, <<>>, msg_key),
   ProviderErr(TRUE, 400, TRUE, <<Detail("")>>, msg_key),
   ProviderErr(TRUE, 429, TRUE, <<Detail("RATE_LIMIT_EXCEEDED")>>, msg_quota),
   ProviderErr(TRUE, 404, FALSE, <<>>, msg_quota),
   ProviderErr(TRUE, 0, FALSE, <<>>, msg_quota),
   ProviderErr(TRUE, 403, TRUE, <<Detail("SERVICE_DISABLED")>>, msg_key),
   ProviderErr(TRUE, 400, TRUE, <<Detail("BAD_REQUEST"), Detail("API_KEY_INVALID")>>, msg_quota),
   ProviderErr(TRUE, 400, TRUE, <<NullDetail, Detail("API_KEY_INVALID")>>, msg_key),
   ProviderErr(TRUE, 400, TRUE, <<Detail("API_KEY_INVALID"), NullDetail>>, msg_quota)}

\* details.find((x) => x.reason === "API_KEY_INVALID") and no look at the message
providerReasonOfAnyEntry(e) ==
  IF /\ e.hasResponse /\ e.hasDetails
     /\ \E k \in 1..Len(e.reasons) :
          ~e.reasons[k].null /\ e.reasons[k].reason = "API_KEY_INVALID"
  THEN "API_KEY_INVALID" ELSE ""

\* lines 123-149: find stops at the first entry with a reason, x.reason on a
\* null entry throws into the empty catch (e) {} of line 149
providerReasonOf(e) ==
  LET stops == {k \in 1..Len(e.reasons) : e.reasons[k].null \/ e.reasons[k].reason # ""}
      searched == e.hasResponse /\ e.hasDetails
      threw == searched /\ stops # {} /\ e.reasons[Min(stops)].null
      fromDetails == IF searched /\ stops # {} /\ ~threw
                     THEN e.reasons[Min(stops)].reason ELSE ""
      m == toLowerCase(e.message)
  IN IF threw THEN ""
     ELSE IF fromDetails # "" THEN fromDetails
     ELSE IF /\ e.hasResponse
             /\ e.message # <<>>
             /\ \/ includes(m, str_api_key_sp)
                \/ includes(m, str_api_key_us)
                \/ includes(m, str_api_key_da)
          THEN "API_KEY_INVALID"
          ELSE ""

\* The computation with an off-by-one on the length.
mentionedOfMoreThanOne(ps) == IF Len(ps) > 1 THEN "Yes" ELSE "No"

\* positions.length > 0 ? "Yes" : "No"
mentionedOf(ps) == IF Len(ps) > 0 THEN "Yes" ELSE "No"

\* positions.length > 0 ? positions[0] : null
positionOf(ps) == IF Len(ps) > 0 THEN [null |-> FALSE, val |-> ps[1]] ELSE NullPosition

\* lines 151-204: the response of the catch block
errorResponse(e) ==
  [status |-> IF providerReasonOf(e) = "API_KEY_INVALID" THEN 401
              ELSE IF e.hasResponse /\ e.status # 0 THEN e.status ELSE 500,
   hasMatch |-> TRUE, mentioned |-> "No", positions |-> <<>>, position |-> NullPosition]

MatchIdle == Enter(<<>>, <<>>)

\* An error without response, as a TypeError thrown inside the try block is
typeError == NoErr

\* A request arrives at exports.check
InitCheck ==
  /\ pc = "check"
  /\ req \in {r \in ReqPool : WellFormedReq(r)}
  /\ keySet \in BOOLEAN
  /\ text = JStr(<<>>)
  /\ resp = NoResp
  /\ provider = "none"
  /\ payload = JUndef
  /\ thrown = FALSE
  /\ failure = NoErr
  /\ MatchIdle
  /\ LevIdle
  /\ SplitIdle
  /\ CallIdle
  /\ NormIdle
  /\ LoopIdle

\* lines 15-16
Reject400 ==
  /\ pc = "check"
  /\ missingPromptOrBrand(req)
  /\ resp' = [status |-> 400, hasMatch |-> FALSE, mentioned |-> "absent",
              positions |-> <<>>, position |-> NullPosition]
  /\ pc' = "responded"
  /\ UNCHANGED <<matchVars, req, keySet, text, provider, payload, thrown, failure,
                 levVars, splitVars, callVars, normVars, loopVars>>

\* lines 84-85 up to the first iteration of the matcher's loop, for a text t
\* that splitIntoItems accepts
StartMatching(t) ==
  /\ text' = t
  /\ items' = splitIntoItemsOf(t).val.v
  /\ brand' = req.brand
  /\ kind' = [k \in 1..Len(splitIntoItemsOf(t).val.v) |-> "pending"]
  /\ contrib' = [k \in 1..Len(splitIntoItemsOf(t).val.v) |-> <<>>]
  /\ pc' = "item"
  /\ UNCHANGED <<i, currentRank, positions, tokens, ti, req, keySet, resp, thrown, failure,
                 levVars, splitVars, callVars, normVars, loopVars>>

\* A TypeError inside the try block: the catch block answers, lines 98-204
ThrowToCatch ==
  /\ thrown' = TRUE
  /\ resp' = errorResponse(typeError)
  /\ pc' = "responded"
  /\ UNCHANGED <<matchVars, req, keySet, failure, levVars, splitVars, callVars, normVars, loopVars>>

\* lines 80-82: no key configured
NoKey ==
  /\ pc = "check"
  /\ ~missingPromptOrBrand(req)
  /\ ~keySet
  /\ StartMatching(JStr(cannedFallback))
  /\ UNCHANGED <<provider, payload>>

\* lines 24-85: the provider answers with payload d
ProviderAnswers ==
  /\ pc = "check"
  /\ ~missingPromptOrBrand(req)
  /\ keySet
  /\ \E d \in PayloadPool :
       /\ provider' = "answered"
       /\ payload' = d
       /\ IF textOfPayload(d).threw
          THEN ThrowToCatch /\ UNCHANGED text
          ELSE IF splitIntoItemsOf(textOfPayload(d).val).threw
               THEN ThrowToCatch /\ text' = textOfPayload(d).val
               ELSE StartMatching(textOfPayload(d).val)

\* lines 36-39 and 98-204: the provider call throws
ProviderFails ==
  /\ pc = "check"
  /\ ~missingPromptOrBrand(req)
  /\ keySet
  /\ provider' = "failed"
  /\ \E e \in ErrPool : failure' = e /\ resp' = errorResponse(e)
  /\ pc' = "responded"
  /\ UNCHANGED <<matchVars, req, keySet, text, payload, thrown, levVars, splitVars, callVars, normVars, loopVars>>

\* lines 86-97
Respond ==
  /\ pc = "returned"
  /\ resp' = [status |-> 200, hasMatch |-> TRUE, mentioned |-> mentionedOf(positions),
              positions |-> positions, position |-> positionOf(positions)]
  /\ pc' = "responded"
  /\ UNCHANGED <<matchVars, req, keySet, text, provider, payload, thrown, failure,
                 levVars, splitVars, callVars, normVars, loopVars>>

NextCheck ==
  \/ Reject400 \/ NoKey \/ ProviderAnswers \/ ProviderFails
  \/ BeginItem \/ TokenStep \/ EndTokens \/ Return
  \/ Respond

SpecCheck == InitCheck /\ [][NextCheck]_vars

(***************************************************************************)
(* levenshtein called directly, in both argument orders.                   *)
(***************************************************************************)
LevAlphabet == {"a", "A", "b"}

InitLev ==
  /\ pc = "lev"
  /\ la \in BoundedSeqs(LevAlphabet, MaxStrLen)
  /\ lb \in BoundedSeqs(LevAlphabet, MaxStrLen)
  /\ lres = <<>>
  /\ lloop = <<>>
  /\ MatchIdle
  /\ CheckIdle
  /\ SplitIdle
  /\ CallIdle
  /\ NormIdle
  /\ LoopIdle

CallAB ==
  /\ pc = "lev"
  /\ Len(lres) = 0
  /\ lres' = <<levenshtein(la, lb)>>
  /\ lloop' = <<matrixIterations(la, lb)>>
  /\ UNCHANGED <<pc, matchVars, checkVars, la, lb, splitVars, callVars, normVars, loopVars>>

CallBA ==
  /\ pc = "lev"
  /\ Len(lres) = 1
  /\ lres' = Append(lres, levenshtein(lb, la))
  /\ lloop' = Append(lloop, matrixIterations(lb, la))
  /\ UNCHANGED <<pc, matchVars, checkVars, la, lb, splitVars, callVars, normVars, loopVars>>

NextLev == CallAB \/ CallBA

SpecLev == InitLev /\ [][NextLev]_vars

(***************************************************************************)
(* splitIntoItems called directly.                                         *)
(***************************************************************************)
MaxTextLen == 4    \* longest generated text handed to splitIntoItems

TextAlphabet == {"a", " ", ",", ";", "\n", "\r"}
text_AcmeGlobexInitech == <<"A", "c", "m", "e", ",", " ", "G", "l", "o", "b", "e", "x", ",", " ",
                            "I", "n", "i", "t", "e", "c", "h">>
text_twoLinesWithCommas == <<"a", ",", " ", "b", "\n", "c", ";", " ", "d">>
SplitTextPool == {text_AcmeGlobexInitech, text_twoLinesWithCommas, text_list, text_commas}

InitSplit ==
  /\ pc = "split"
  /\ stext \in BoundedSeqs(TextAlphabet, MaxTextLen) \cup SplitTextPool
  /\ lines = <<>>
  /\ MatchIdle
  /\ CheckIdle
  /\ LevIdle
  /\ CallIdle
  /\ NormIdle
  /\ LoopIdle

\* splitIntoItems(stext): lines 45-52
SplitText ==
  /\ pc = "split"
  /\ lines' = splitIntoItems(stext)
  /\ pc' = "split_done"
  /\ UNCHANGED <<matchVars, checkVars, levVars, stext, callVars, normVars, loopVars>>

NextSplit == SplitText

SpecSplit == InitSplit /\ [][NextSplit]_vars

(***************************************************************************)
(* Vocabulary of the properties.                                           *)
(***************************************************************************)
Numbered(item) == numMatch(item).matched

\* The rank in force once item k of its has been looked at: the number of the
\* closest numbered item at or before k, 0 when there is none.
ActiveRank(its, k) ==
  LET numbered == {j \in 1..k : Numbered(its[j])}
  IN IF numbered = {} THEN 0
     ELSE parseInt(numMatch(its[CHOOSE j \in numbered : \A h \in numbered : h <= j]).digits)

RankOrPosition(its, k) == IF ActiveRank(its, k) > 0 THEN ActiveRank(its, k) ELSE k

Processed(k) == kind[k] # "pending"
ContainsWord(item, b) == regexTest(b, item)
ContainsSubstring(item, b) == includes(toLowerCase(item), toLowerCase(b))

\* max(2, floor(len(cleaned_brand) * 0.25))
SpecThreshold(b) == Max2(2, Len(brandCleanOf(b)) \div 4)
WithinThreshold(t, b) ==
  levenshtein(toLowerCase(t), brandCleanOf(b)) <= SpecThreshold(b)

RECURSIVE Flatten(_)
Flatten(ss) == IF ss = <<>> THEN <<>> ELSE Head(ss) \o Flatten(Tail(ss))

Ascending(ps) == \A k \in 1..(Len(ps) - 1) : ps[k] <= ps[k + 1]
StrictlyAscending(ps) == \A k \in 1..(Len(ps) - 1) : ps[k] < ps[k + 1]

\* C1: for a non-empty brand, every scanned item that contains the brand as a
\* whole word or as a substring (case-insensitively) is settled by the exact
\* step or, failing that, by the substring step, never by the fuzzy step, and
\* pushes exactly one value: the rank in force if positive, else its 1-based index.
C1_ExactOrSubstringRecordsOnce ==
  brand # <<>> =>
    \A k \in 1..Len(items) :
      (Processed(k) /\ (ContainsWord(items[k], brand) \/ ContainsSubstring(items[k], brand)))
        => /\ kind[k] = (IF ContainsWord(items[k], brand) THEN "exact" ELSE "substring")
           /\ contrib[k] = <<RankOrPosition(items, k)>>

C1_Witness ==
  /\ pc = "returned"
  /\ brand # <<>>
  /\ \E k, j \in 1..Len(items) :
       /\ kind[k] = "exact" /\ ActiveRank(items, k) > 0 /\ ActiveRank(items, k) # k
       /\ kind[j] = "substring" /\ ActiveRank(items, j) = 0

\* C2: currentRank is 0 before the first item and always equals the number of
\* the closest numbered item scanned so far, so it changes only at a numbered
\* item; an unnumbered item matched by the exact or substring step records the
\* rank of the closest preceding numbered item; the items "1. Acme Corp",
\* "2. Other Co", "Acme again" with brand "Acme" give positions [1, 2].
C2_RankPersists ==
  /\ pc \in {"item", "returned"} => currentRank = ActiveRank(items, i)
  /\ pc = "token" => currentRank = ActiveRank(items, i + 1)
  /\ \A k \in 1..Len(items) :
       (kind[k] \in {"exact", "substring"} /\ ~Numbered(items[k]) /\ ActiveRank(items, k - 1) > 0)
         => contrib[k] = <<ActiveRank(items, k - 1)>>
  /\ (pc = "returned" /\ brand = brand_Acme
        /\ items = <<item_1AcmeCorp, item_2OtherCo, item_AcmeAgain>>)
       => positions = <<1, 2>>

C2_Witness ==
  /\ pc = "returned"
  /\ brand = brand_Acme
  /\ items = <<item_1AcmeCorp, item_2OtherCo, item_AcmeAgain>>
  /\ positions = <<1, 2>>
  /\ currentRank = 2

\* C3 as stated: the positions returned are in non-decreasing order (taken
\* here for the non-empty brands of the matcher's contract only).
C3_Original == (pc = "returned" /\ brand # <<>>) => Ascending(positions)

\* C3 amended: the positions returned are the pushed values in item order, at
\* most one per item; they are strictly ascending when no item begins with a
\* numbered-list marker.
C3_ItemOrder ==
  pc = "returned" =>
    /\ positions = Flatten(contrib)
    /\ (\A k \in 1..Len(items) : ~Numbered(items[k])) => StrictlyAscending(positions)

C3_Witness ==
  /\ pc = "returned"
  /\ \A k \in 1..Len(items) : ~Numbered(items[k])
  /\ Len(positions) >= 2
  /\ \E k \in 1..Len(items) : kind[k] = "none"

HasTokenWithin(item, b) ==
  \E j \in 1..Len(tokensOf(item)) : WithinThreshold(tokensOf(item)[j], b)
HasNonEmptyTokenWithin(item, b) ==
  \E j \in 1..Len(tokensOf(item)) :
    tokensOf(item)[j] # <<>> /\ WithinThreshold(tokensOf(item)[j], b)

\* Parts of C6 that do not depend on which tokens count.
C6_Common ==
  /\ \A k \in 1..Len(items) : Len(contrib[k]) <= 1
  /\ \A k \in 1..Len(items) :
       kind[k] = "fuzzy" =>
         /\ contrib[k] = <<k>>
         /\ ~ContainsWord(items[k], brand) /\ ~ContainsSubstring(items[k], brand)
  /\ pc = "token" => contrib[i + 1] = <<>>

\* C6 as stated: an item that fails the exact and substring steps pushes its
\* 1-based index, once, at the first cleaned token within the threshold.
C6_Original ==
  /\ C6_Common
  /\ \A k \in 1..Len(items) :
       kind[k] \in {"fuzzy", "none"} =>
         (HasTokenWithin(items[k], brand) <=> contrib[k] = <<k>>)
  /\ pc = "token" => \A j \in 1..ti : ~WithinThreshold(tokens[j], brand)

\* C6 amended: an item that fails the exact and substring steps pushes its
\* 1-based index (never the rank), once, at the first non-empty cleaned token
\* within the threshold, and the token loop then ends; empty cleaned tokens are
\* passed over; no item pushes more than one position.
C6_FuzzyFirstTokenIndexOnce ==
  /\ C6_Common
  /\ \A k \in 1..Len(items) :
       kind[k] \in {"fuzzy", "none"} =>
         (HasNonEmptyTokenWithin(items[k], brand) <=> contrib[k] = <<k>>)
  /\ pc = "token" =>
       \A j \in 1..ti : tokens[j] = <<>> \/ ~WithinThreshold(tokens[j], brand)

C6_Witness ==
  /\ pc = "returned"
  /\ \E k \in 1..Len(items) :
       /\ kind[k] = "fuzzy"
       /\ ActiveRank(items, k) > 0 /\ ActiveRank(items, k) # k
       /\ contrib[k] = <<k>>
       /\ Len(tokensOf(items[k])) > 3

\* C7: when the cleaned brand is empty the fuzzy step records no position.
C7_Claim ==
  brandCleanOf(brand) = <<>> => \A k \in 1..Len(items) : kind[k] # "fuzzy"

\* The item without its leading numbered-list marker.
WithoutMarker(item) == SubSeq(item, numMatch(item).length + 1, Len(item))
Matches(item, b) ==
  \/ ContainsWord(item, b)
  \/ ContainsSubstring(item, b)
  \/ HasNonEmptyTokenWithin(item, b)

\* C8: the marker of a numbered item sets currentRank and takes no part in
\* matching: a numbered item that pushed a position also matches without its marker.
C8_Claim ==
  \A k \in 1..Len(items) :
    (Processed(k) /\ Numbered(items[k])) =>
      /\ ActiveRank(items, k) = parseInt(numMatch(items[k]).digits)
      /\ contrib[k] # <<>> => Matches(WithoutMarker(items[k]), brand)

\* C9: with the empty string as brand neither the exact nor the substring
\* step matches any item.
C9_Claim ==
  brand = <<>> => \A k \in 1..Len(items) : kind[k] \notin {"exact", "substring"}

\* C4: every response that carries the match fields (the success response
\* and both responses of the catch block) has mentioned "Yes" exactly when
\* positions is non-empty, and position is the first element of positions
\* when there is one and null otherwise.
C4_MentionedIffPositions ==
  (pc = "responded" /\ resp.hasMatch) =>
    /\ resp.mentioned = "Yes" <=> resp.positions # <<>>
    /\ resp.mentioned \in {"Yes", "No"}
    /\ resp.positions # <<>> => resp.position = [null |-> FALSE, val |-> resp.positions[1]]
    /\ resp.positions = <<>> => resp.position.null
    /\ resp.status = 200 => resp.positions = positions

C4_Witness ==
  /\ pc = "responded"
  /\ resp.status = 200
  /\ Len(resp.positions) = 1
  /\ resp.mentioned = "Yes"
  /\ resp.position.val = resp.positions[1]

\* C10: levenshtein(a, b) = levenshtein(b, a), the empty string included.
C10_Symmetric == Len(lres) = 2 => lres[1] = lres[2]

C10_Witness ==
  /\ Len(lres) = 2
  /\ la = <<"a", "b">> /\ lb = <<"A", "b", "b">>
  /\ lres = <<1, 1>>

\* The strings one insertion, deletion or substitution away from s, with
\* characters of A.
OneEdit(s, A) ==
  {SubSeq(s, 1, k - 1) \o SubSeq(s, k + 1, Len(s)) : k \in 1..Len(s)}
  \cup {[s EXCEPT ![k] = c] : k \in 1..Len(s), c \in A}
  \cup {SubSeq(s, 1, k) \o <<c>> \o SubSeq(s, k + 1, Len(s)) : k \in 0..Len(s), c \in A}

\* The number of rounds of single edits after which target is first reached;
\* strings longer than maxLen are never needed on a shortest way.
RECURSIVE EditRounds(_, _, _, _, _)
EditRounds(reached, target, n, maxLen, A) ==
  IF target \in reached THEN n
  ELSE EditRounds(reached \cup {t \in UNION {OneEdit(s, A) : s \in reached} : Len(t) <= maxLen},
                  target, n + 1, maxLen, A)

\* Minimum number of single-character edits from a to b, letters compared
\* without regard to case.
MinEdits(a, b) ==
  EditRounds({toLowerCase(a)}, toLowerCase(b), 0, Max2(Len(a), Len(b)),
             Range(toLowerCase(a)) \cup Range(toLowerCase(b)))

\* C11: levenshtein(a, b) is the minimum number of single-character
\* insertions, deletions and substitutions turning a into b, case ignored;
\* with an empty argument it is the length of the other one and the matrix
\* loop is not entered.
C11_MinimumEdits ==
  \A k \in 1..Len(lres) :
    LET a == IF k = 1 THEN la ELSE lb
        b == IF k = 1 THEN lb ELSE la
    IN /\ lres[k] = MinEdits(a, b)
       /\ (a = <<>> \/ b = <<>>) => (lres[k] = Len(a) + Len(b) /\ lloop[k] = 0)

C11_Witness ==
  /\ Len(lres) = 2
  /\ la = <<>> /\ lb = <<"A", "b">>
  /\ lres = <<2, 2>>
  /\ lloop = <<0, 0>>

\* its occur in t from index from on, one after the other without overlap.
RECURSIVE InOrder(_, _, _)
InOrder(its, t, from) ==
  IF its = <<>> THEN TRUE
  ELSE LET w == Head(its)
           occ == {p \in from..(Len(t) - Len(w) + 1) : SubSeq(t, p, p + Len(w) - 1) = w}
       IN occ # {} /\ InOrder(Tail(its), t, Min(occ) + Len(w))

\* C12: splitIntoItems returns no empty or whitespace-only item, every item
\* is trimmed, the items occur in the text in the order returned, and the
\* empty text gives the empty sequence.
C12_ItemsTrimmedNonEmptyInOrder ==
  pc = "split_done" =>
    /\ \A k \in 1..Len(lines) :
         /\ lines[k] # <<>>
         /\ ~IsSpace(lines[k][1])
         /\ ~IsSpace(lines[k][Len(lines[k])])
    /\ InOrder(lines, stext, 1)
    /\ stext = <<>> => lines = <<>>

C12_Witness ==
  /\ pc = "split_done"
  /\ stext = <<" ", "a", "\n", "\n">>
  /\ lines = <<<<"a">>>>

\* The number of segments of t between characters of D that hold a
\* character other than whitespace.
SegmentCount(t, D) ==
  Cardinality({k \in 1..Len(t) :
                 /\ ~IsSpace(t[k]) /\ t[k] \notin D
                 /\ \A j \in 1..(k - 1) :
                      (\A h \in j..(k - 1) : t[h] \notin D) => IsSpace(t[j])})
CountOf(t, D) == Cardinality({k \in 1..Len(t) : t[k] \in D})

\* C13: a text with two or more non-blank lines gives exactly its non-blank
\* lines and none of its commas and semicolons is used as a separator; a text
\* with at most one non-blank line is split on commas, semicolons and line
\* breaks; "Acme, Globex, Initech" gives ["Acme", "Globex", "Initech"].
C13_LinesFirstThenDelimiters ==
  pc = "split_done" =>
    /\ SegmentCount(stext, {"\n"}) >= 2 =>
         /\ Len(lines) = SegmentCount(stext, {"\n"})
         /\ CountOf(Flatten(lines), {",", ";"}) = CountOf(stext, {",", ";"})
    /\ SegmentCount(stext, {"\n"}) <= 1 =>
         /\ Len(lines) = SegmentCount(stext, {",", ";", "\n"})
         /\ CountOf(Flatten(lines), {",", ";", "\n"}) = 0
    /\ stext = text_AcmeGlobexInitech =>
         lines = << <<"A", "c", "m", "e">>, <<"G", "l", "o", "b", "e", "x">>,
                    <<"I", "n", "i", "t", "e", "c", "h">> >>

C13_Witness ==
  /\ pc = "split_done"
  /\ stext = text_twoLinesWithCommas
  /\ lines = << <<"a", ",", " ", "b">>, <<"c", ";", " ", "d">> >>

(***************************************************************************)
(* findBrandPositions(splitIntoItems(text), brand) called again and again. *)
(***************************************************************************)
MaxCalls == 2

text_AcmeThenRanked ==
  <<"A", "c", "m", "e", " ", "a", "g", "a", "i", "n", "\n",
    "2", ".", " ", "O", "t", "h", "e", "r", " ", "C", "o">>
text_AcneThenAcme ==
  <<"3", ")", " ", "b", "i", "g", " ", "A", "c", "n", "e", " ", "i", "n", "c", "\n",
    "A", "c", "m", "e">>

CallTextPool == {text_AcmeThenRanked, text_AcneThenAcme, item_ToBe}
CallBrandPool == {brand_Acme, brand_ab}

\* currentRank carried over from the call before
initialRankKept(prev) == prev

\* let currentRank = 0, line 58: prev is the value the call before left
initialRank(prev) == 0

InitCalls ==
  /\ pc = "idle"
  /\ MatchIdle
  /\ CheckIdle
  /\ LevIdle
  /\ SplitIdle
  /\ CallIdle
  /\ NormIdle
  /\ LoopIdle

\* A caller evaluates splitIntoItems(t) and enters findBrandPositions:
\* lines 45-52 and 54-58
Call ==
  /\ pc = "idle"
  /\ Len(results) < MaxCalls
  /\ \E t \in CallTextPool, b \in CallBrandPool :
       /\ stext' = t
       /\ lines' = splitIntoItems(t)
       /\ items' = splitIntoItems(t)
       /\ brand' = b
       /\ kind' = [k \in 1..Len(splitIntoItems(t)) |-> "pending"]
       /\ contrib' = [k \in 1..Len(splitIntoItems(t)) |-> <<>>]
  /\ i' = 0
  /\ currentRank' = initialRank(currentRank)
  /\ positions' = <<>>
  /\ tokens' = <<>>
  /\ ti' = 0
  /\ pc' = "item"
  /\ UNCHANGED <<checkVars, levVars, callVars, normVars, loopVars>>

\* return positions, line 96, back in the caller
ReturnToCaller ==
  /\ pc = "returned"
  /\ results' = Append(results, [text |-> stext, brand |-> brand, positions |-> positions])
  /\ pc' = "idle"
  /\ UNCHANGED <<matchVars, checkVars, levVars, splitVars, normVars, loopVars>>

NextCalls == Call \/ BeginItem \/ TokenStep \/ EndTokens \/ Return \/ ReturnToCaller

SpecCalls == InitCalls /\ [][NextCalls]_vars

(***************************************************************************)
(* extractTextFromApiResponse called on its own.                           *)
(***************************************************************************)
OutputTextChoices ==
  << <<>>,
     <<Field(k_output_text, JStr(brand_Acme))>>,
     <<Field(k_output_text, JStr(<<>>))>>,
     <<Field(k_output_text, JNum(42))>> >>

OutputChoices ==
  << <<>>,
     <<Field(k_output, JArr(<<>>))>>,
     <<Field(k_output, JStr(brand_ab))>>,
     <<Field(k_output, JArr(<<JStr(item_ToBe), JStr(brand_ab)>>))>>,
     <<Field(k_output, JArr(<<JStr(<<>>)>>))>>,
     <<Field(k_output, JArr(<<JObj(<<Field(k_content, JStr(text_Globex))>>)>>))>>,
     <<Field(k_output, JArr(<<JObj(<<
         Field(k_content, JArr(<<JObj(<<Field(k_text, JStr(brand_Acme))>>),
                                 JStr(brand_ab), JNum(7), JObj(<<>>)>>))>>)>>))>>,
     <<Field(k_output, JArr(<<JObj(<<Field(k_content, JArr(<<>>))>>)>>))>>,
     <<Field(k_output, JArr(<<JObj(<<Field(k_content, JArr(<<JNull>>))>>)>>))>>,
     <<Field(k_output, JArr(<<JObj(<<Field(k_content, JObj(<<>>))>>)>>))>>,
     <<Field(k_output, JArr(<<JObj(<<>>)>>))>>,
     <<Field(k_output, JArr(<<JNull>>))>> >>

ChoicesChoices ==
  << <<>>,
     <<Field(k_choices, JArr(<<>>))>>,
     <<Field(k_choices, JArr(<<JObj(<<Field(k_text, JStr(item_AcmeAgain))>>)>>))>>,
     <<Field(k_choices, JArr(<<JObj(<<
         Field(k_message, JObj(<<Field(k_content, JStr(item_MegaAcme))>>))>>)>>))>>,
     <<Field(k_choices, JArr(<<JObj(<<Field(k_message, JObj(<<>>))>>)>>))>>,
     <<Field(k_choices, JStr(brand_ab))>>,
     <<Field(k_choices, JArr(<<JNull>>))>> >>

DataPool ==
  {JObj(OutputTextChoices[t] \o OutputChoices[o] \o ChoicesChoices[c]) :
     t \in 1..Len(OutputTextChoices), o \in 1..Len(OutputChoices),
     c \in 1..Len(ChoicesChoices)}
  \cup {JStr(text_Globex), JNum(42), JArr(<<JStr(brand_ab)>>)}

\* resp is the payload itself or an object holding it under data
RespPool ==
  DataPool \cup {JObj(<<Field(k_data, d)>>) : d \in DataPool}
    \cup {JUndef, JNull, JStr(<<>>), JObj(<<Field(k_data, JNull)>>)}

InitExtract ==
  /\ pc = "extract"
  /\ nresp \in RespPool
  /\ nout = JUndef
  /\ LoopIdle
  /\ MatchIdle
  /\ CheckIdle
  /\ LevIdle
  /\ SplitIdle
  /\ CallIdle

\* extractTextFromApiResponse(nresp): lines 20-43
ExtractText ==
  /\ pc = "extract"
  /\ nout' = extractTextFromApiResponse(nresp)
  /\ pc' = "extract_done"
  /\ UNCHANGED <<matchVars, checkVars, levVars, splitVars, callVars, nresp, loopVars>>

NextExtract == ExtractText

SpecExtract == InitExtract /\ [][NextExtract]_vars

(***************************************************************************)
(* Normalizing the provider's answer in the check controller.              *)
(***************************************************************************)

\* The provider answered and the controller has gone past lines 45-85.
Normalized == provider = "answered" /\ pc # "check"

\* C14: normalizing a provider payload never raises and never aborts the
\* pipeline: whatever the payload's shape, once the provider has answered no
\* exception leaves the normalizing and segmenting steps, and the request is
\* answered by the matching pipeline (status 200), an unexpected shape giving
\* the empty text.
C14_Claim ==
  Normalized => /\ ~thrown
                /\ pc = "responded" => resp.status = 200

\* C15: for every provider payload the normalized text handed to the
\* segmenter is a string, never a number, object or array.
C15_Claim == Normalized => IsString(text)

\* The payload has a non-empty candidates list.
HasCandidates(d) ==
  Truthy(d) /\ IsArray(Get(d, k_candidates)) /\ Len(Get(d, k_candidates).v) > 0

\* The text the stated priority gives for a first candidate c: the joined
\* texts of its non-empty content parts, else its text, else its output, else
\* its content (string, content.text or stringified), else the candidate
\* stringified.
PriorityText(c) ==
  LET content == Get(c, k_content)
      parts == Get(content, k_parts)
  IN IF IsArray(parts) /\ Len(parts.v) > 0
       THEN JStr(joinValues(partTexts(parts.v), <<"\n">>))
     ELSE IF Truthy(Get(c, k_text)) THEN Get(c, k_text)
     ELSE IF Truthy(Get(c, k_output)) THEN Get(c, k_output)
     ELSE IF IsString(content) /\ Truthy(content) THEN content
     ELSE IF Truthy(Get(content, k_text)) THEN Get(content, k_text)
     ELSE IF Truthy(content) THEN JStr(stringify(content))
     ELSE JStr(stringify(c))

\* C16: for a payload with a non-empty candidates list the normalized text is
\* the one the stated priority gives for the first candidate.
C16_Claim ==
  (Normalized /\ HasCandidates(payload))
     => text = PriorityText(First(Get(payload, k_candidates)))

\* The same priority on the payloads whose probing does not throw.
C16_WhenNothingThrows ==
  (Normalized /\ HasCandidates(payload) /\ ~thrown)
     => text = PriorityText(First(Get(payload, k_candidates)))

(***************************************************************************)
(* The order of the probes of extractTextFromApiResponse.                  *)
(***************************************************************************)
Found(x) == [found |-> TRUE, val |-> x]
NotFound == [found |-> FALSE, val |-> JUndef]

\* The payload of a response: its data field when it has one.
DataOf(r) == IF Truthy(Get(r, k_data)) THEN Get(r, k_data) ELSE r

\* The text of the output list: its first element when that is a string, else
\* that element's content when it is a non-empty string, or the joined texts
\* of the content when it is a list.
OutputListText(data) ==
  LET output == Get(data, k_output)
      o == First(output)
      content == Get(o, k_content)
  IN IF ~(IsArray(output) /\ Len(output.v) > 0) THEN NotFound
     ELSE IF IsString(o) THEN Found(o)
     ELSE IF IsString(content) /\ Truthy(content) THEN Found(content)
     ELSE IF IsArray(content)
          THEN Found(JStr(joinValues(contentPartTexts(content.v), <<"\n">>)))
     ELSE NotFound

\* The text of the choices list: the first choice's text, else its message
\* content.
ChoicesText(data) ==
  LET choices == Get(data, k_choices)
      ch == First(choices)
  IN IF ~(Truthy(choices) /\ Truthy(Get(choices, k_length))) THEN NotFound
     ELSE IF Truthy(Get(ch, k_text)) THEN Found(Get(ch, k_text))
     ELSE IF Truthy(Get(Get(ch, k_message), k_content))
          THEN Found(Get(Get(ch, k_message), k_content))
     ELSE NotFound

\* Reading the output list throws: its first element is null or undefined, or
\* that element's content list holds a null or undefined element.
OutputListThrows(data) ==
  LET output == Get(data, k_output)
      o == First(output)
      content == Get(o, k_content)
  IN /\ IsArray(output) /\ Len(output.v) > 0
     /\ \/ ~Readable(o)
        \/ IsArray(content) /\ \E n \in 1..Len(content.v) : ~Readable(content.v[n])

\* Reading the choices list throws: its first element is null or undefined.
ChoicesThrows(data) ==
  LET choices == Get(data, k_choices)
  IN Truthy(choices) /\ Truthy(Get(choices, k_length)) /\ ~Readable(First(choices))

\* First probe that yields wins, the whole payload stringified when none does.
FirstProbeText(data) ==
  IF IsString(data) THEN data
  ELSE IF Truthy(Get(data, k_output_text)) THEN Get(data, k_output_text)
  ELSE IF OutputListText(data).found THEN OutputListText(data).val
  ELSE IF ChoicesText(data).found THEN ChoicesText(data).val
  ELSE JStr(stringify(data))

\* The same, with the empty string when the first probe reached throws.
FirstProbeTextOrEmpty(data) ==
  IF IsString(data) THEN data
  ELSE IF Truthy(Get(data, k_output_text)) THEN Get(data, k_output_text)
  ELSE IF OutputListThrows(data) THEN JStr(<<>>)
  ELSE IF OutputListText(data).found THEN OutputListText(data).val
  ELSE IF ChoicesThrows(data) THEN JStr(<<>>)
  ELSE IF ChoicesText(data).found THEN ChoicesText(data).val
  ELSE JStr(stringify(data))

Extracted == pc = "extract_done" /\ Truthy(nresp)

\* C17 as stated: the probes (string, output_text, output list, choices list)
\* are tried in this order, the first that applies gives the result, and a
\* payload none applies to gives the stringified payload.
C17_Original == Extracted => nout = FirstProbeText(DataOf(nresp))

\* C17: the probes are tried in this order, the first that yields gives the
\* result, a payload none applies to gives the stringified payload, and the
\* result is the empty string when reading the output list or the choices
\* list throws before a probe has yielded.
C17_ProbeOrder == Extracted => nout = FirstProbeTextOrEmpty(DataOf(nresp))

\* An empty output_text is passed over and the output list wins over the
\* choices list.
C17_Witness ==
  /\ pc = "extract_done"
  /\ nresp = JObj(OutputTextChoices[3] \o OutputChoices[4] \o ChoicesChoices[3])
  /\ nout = JStr(item_ToBe)

(***************************************************************************)
(* Calls of the matching pipeline do not influence one another.            *)
(***************************************************************************)

PresentAndNonEmpty(r) ==
  /\ r.hasPrompt /\ Len(r.prompt) > 0
  /\ r.hasBrand /\ Len(r.brand) > 0

\* C19: a check request whose prompt or brand is missing or the empty string
\* is answered 400 with no provider call made and no segmentation or matching
\* run; the provider is called and the pipeline entered only for a request
\* whose prompt and brand are both present and non-empty.
C19_RejectedBeforePipeline ==
  /\ ~PresentAndNonEmpty(req) =>
       /\ provider = "none"
       /\ pc \in {"check", "responded"}
       /\ MatchIdle
       /\ text = JStr(<<>>)
       /\ pc = "responded" => resp.status = 400
  /\ (provider # "none" \/ pc \in {"item", "token", "returned"}) => PresentAndNonEmpty(req)

\* A request with a prompt and the empty brand has been answered 400.
C19_Witness ==
  /\ pc = "responded"
  /\ req = [hasPrompt |-> TRUE, prompt |-> prompt_x, hasBrand |-> TRUE, brand |-> <<>>]
  /\ resp.status = 400
  /\ provider = "none"

(***************************************************************************)
(* The answer to a failed provider call.                                   *)
(***************************************************************************)
ProviderFailed == provider = "failed" /\ pc = "responded"

EmptyMatchFields ==
  resp.mentioned = "No" /\ resp.positions = <<>> /\ resp.position = NullPosition

ProviderStatusOr500 == IF failure.status # 0 THEN failure.status ELSE 500

\* error.message mentions the API key.
MentionsApiKey(e) ==
  \/ includes(toLowerCase(e.message), str_api_key_sp)
  \/ includes(toLowerCase(e.message), str_api_key_us)
  \/ includes(toLowerCase(e.message), str_api_key_da)

\* Some entry of error.details carries reason API_KEY_INVALID.
CarriesKeyReason(e) ==
  \E k \in 1..Len(e.reasons) : ~e.reasons[k].null /\ e.reasons[k].reason = "API_KEY_INVALID"

\* The entries of error.details up to k are objects without a reason.
NoReasonBefore(e, k) ==
  \A j \in 1..(k - 1) : ~e.reasons[j].null /\ e.reasons[j].reason = ""

\* The first entry of error.details with a reason carries API_KEY_INVALID and
\* no null entry precedes it; or no entry is null or has a reason and the
\* message mentions the API key.
FirstReasonIsKeyOrMessageAlone(e) ==
  \/ \E k \in 1..Len(e.reasons) :
       /\ ~e.reasons[k].null /\ e.reasons[k].reason = "API_KEY_INVALID"
       /\ NoReasonBefore(e, k)
  \/ /\ NoReasonBefore(e, Len(e.reasons) + 1)
     /\ MentionsApiKey(e)

MaxListed == 2

\* A model name as configured or listed: with or without the models/ prefix
ModelName(p, b) == [prefixed |-> p, base |-> b]

\* GOOGLE_MODEL.replace(/^models\//, '') and m.name.replace('models/', '')
removeModelsPrefix(n) == n.base

\* process.env.GEMINI_MODEL_GOOGLE || 'gemini-2.5-flash', line 29
GoogleModelPool ==
  {ModelName(FALSE, "gemini-2.5-flash"), ModelName(TRUE, "gemini-pro"),
   ModelName(FALSE, "gemini-ultra")}

\* line 174 and line 325
defaultModels(modelName) ==
  <<modelName, "gemini-2.5-flash", "gemini-2.5-pro", "gemini-2.0-flash",
    "gemini-1.5-flash", "gemini-1.5-pro", "gemini-pro">>

\* An entry of listResp.data.models: its name and whether its
\* supportedGenerationMethods include generateContent
Listed(n, g) == [name |-> n, generateContent |-> g]
ListedPool ==
  {Listed(ModelName(TRUE, "gemini-2.5-flash"), TRUE),
   Listed(ModelName(TRUE, "gemini-pro"), TRUE),
   Listed(ModelName(FALSE, "gemini-pro"), TRUE),
   Listed(ModelName(TRUE, "gemini-ultra"), TRUE),
   Listed(ModelName(TRUE, "embedding-001"), FALSE)}

\* lines 164-166: the names of the listed models that support generateContent
availableModelsOf(listing) ==
  LET supporting == SelectSeq(listing, LAMBDA m : m.generateContent)
  IN [n \in 1..Len(supporting) |-> removeModelsPrefix(supporting[n].name)]

\* modelsToTry.indexOf(x)
indexOf(xs, x) ==
  IF \E n \in 1..Len(xs) : xs[n] = x
  THEN Min({n \in 1..Len(xs) : xs[n] = x}) - 1
  ELSE 0 - 1

\* line 179: tryModel === modelName && modelsToTry.indexOf(tryModel) > 0,
\* for the entry k of the list xs
skipModel(xs, k, modelName) == xs[k] = modelName /\ indexOf(xs, xs[k]) > 0

msg_notfound == <<"N", "o", "t", " ", "f", "o", "u", "n", "d">>

\* The errors of an attempt: e.response.status === 404, and the others
NotFoundErrs ==
  {ProviderErr(TRUE, 404, FALSE, <<>>, msg_notfound),
   ProviderErr(TRUE, 404, TRUE, <<Detail("NOT_FOUND")>>, msg_quota)}
OtherErrs ==
  {NoErr,
   ProviderErr(TRUE, 429, TRUE, <<Detail("RATE_LIMIT_EXCEEDED")>>, msg_quota),
   ProviderErr(TRUE, 400, TRUE, <<Detail("API_KEY_INVALID")>>, msg_key)}

Caught(e) == [null |-> FALSE, err |-> e]

\* lines 417-488: the response of the catch block
errorResponseOfIndex(e) ==
  [status |-> IF providerReasonOf(e) = "API_KEY_INVALID" THEN 401 ELSE 200,
   mentioned |-> "No", positions |-> <<>>, position |-> NullPosition,
   providerStatus |-> IF e.hasResponse THEN e.status ELSE 0,
   providerDetail |-> IF e.hasResponse THEN e ELSE NoErr]

Attempt(k, outcome, e) ==
  [at |-> k, model |-> modelsToTry[k], outcome |-> outcome, err |-> e]

\* A request with prompt and brand reaches the model loop's branch
InitModels ==
  /\ pc = "list_models"
  /\ googleModel \in GoogleModelPool
  /\ route \in {"google_host", "no_host"}
  /\ modelsToTry = <<>> /\ mi = 0
  /\ apiRespSet = FALSE /\ lastError = NoLastError /\ caught = NoLastError
  /\ mresp = NoModelResp /\ attempts = <<>>
  /\ MatchIdle
  /\ CheckIdle
  /\ LevIdle
  /\ SplitIdle
  /\ CallIdle
  /\ NormIdle

loopFrame == <<matchVars, checkVars, levVars, splitVars, callVars, normVars, googleModel, route>>

\* lines 160-175: the model listing answers
ListAnswers ==
  /\ pc = "list_models"
  /\ \E listing \in BoundedSeqs(ListedPool, MaxListed) :
       modelsToTry' = IF Len(availableModelsOf(listing)) > 0
                      THEN availableModelsOf(listing)
                      ELSE defaultModels(removeModelsPrefix(googleModel))
  /\ pc' = "models"
  /\ UNCHANGED <<loopFrame, mi, apiRespSet, lastError, caught, mresp, attempts>>

\* lines 168-175: the model listing throws
ListFails ==
  /\ pc = "list_models"
  /\ modelsToTry' = defaultModels(removeModelsPrefix(googleModel))
  /\ pc' = "models"
  /\ UNCHANGED <<loopFrame, mi, apiRespSet, lastError, caught, mresp, attempts>>

\* line 179: continue
SkipModel ==
  /\ pc = "models"
  /\ mi < Len(modelsToTry)
  /\ skipModel(modelsToTry, mi + 1, removeModelsPrefix(googleModel))
  /\ mi' = mi + 1
  /\ UNCHANGED <<pc, loopFrame, modelsToTry, apiRespSet, lastError, caught, mresp, attempts>>

\* lines 181-185: the attempt succeeds, break
AttemptSucceeds ==
  /\ pc = "models"
  /\ mi < Len(modelsToTry)
  /\ ~skipModel(modelsToTry, mi + 1, removeModelsPrefix(googleModel))
  /\ attempts' = Append(attempts, Attempt(mi + 1, "ok", NoErr))
  /\ apiRespSet' = TRUE
  /\ pc' = "loop_exit"
  /\ UNCHANGED <<loopFrame, modelsToTry, mi, lastError, caught, mresp>>

\* lines 186-190: the attempt fails with 404, continue
AttemptNotFound ==
  /\ pc = "models"
  /\ mi < Len(modelsToTry)
  /\ ~skipModel(modelsToTry, mi + 1, removeModelsPrefix(googleModel))
  /\ \E e \in NotFoundErrs :
       /\ attempts' = Append(attempts, Attempt(mi + 1, "404", e))
       /\ lastError' = Caught(e)
  /\ mi' = mi + 1
  /\ UNCHANGED <<pc, loopFrame, modelsToTry, apiRespSet, caught, mresp>>

\* lines 186-193 and 417-488: the attempt fails otherwise, throw e
AttemptFails ==
  /\ pc = "models"
  /\ mi < Len(modelsToTry)
  /\ ~skipModel(modelsToTry, mi + 1, removeModelsPrefix(googleModel))
  /\ \E e \in OtherErrs :
       /\ attempts' = Append(attempts, Attempt(mi + 1, "error", e))
       /\ lastError' = Caught(e)
       /\ caught' = Caught(e)
       /\ mresp' = errorResponseOfIndex(e)
  /\ pc' = "error_response"
  /\ UNCHANGED <<loopFrame, modelsToTry, mi, apiRespSet>>

\* The for-of loop has passed every entry
LoopEnds ==
  /\ pc = "models"
  /\ mi = Len(modelsToTry)
  /\ pc' = "loop_exit"
  /\ UNCHANGED <<loopFrame, modelsToTry, mi, apiRespSet, lastError, caught, mresp, attempts>>

\* lines 198-202 and 417-488: if (!apiResp) throw
AllFailed ==
  /\ pc = "loop_exit"
  /\ ~apiRespSet
  /\ caught' = IF lastError.null THEN Caught(NoErr) ELSE lastError
  /\ mresp' = errorResponseOfIndex(IF lastError.null THEN NoErr ELSE lastError.err)
  /\ pc' = "error_response"
  /\ UNCHANGED <<loopFrame, modelsToTry, mi, apiRespSet, lastError, attempts>>

\* line 203 on: the handler goes on with apiResp
GoOnWithResponse ==
  /\ pc = "loop_exit"
  /\ apiRespSet
  /\ pc' = "have_response"
  /\ UNCHANGED <<loopFrame, modelsToTry, mi, apiRespSet, lastError, caught, mresp, attempts>>

NextModels ==
  \/ ListAnswers \/ ListFails \/ SkipModel \/ AttemptSucceeds \/ AttemptNotFound
  \/ AttemptFails \/ LoopEnds \/ AllFailed \/ GoOnWithResponse

SpecModels == InitModels /\ [][NextModels]_vars

\* C21: within one request no model name receives more than one
\* generateContent attempt, for the default list and for a listed one.
C21_Claim ==
  \A a, b \in 1..Len(attempts) : a # b => attempts[a].model # attempts[b].model

\* The entry k of modelsToTry received an attempt.
AttemptedAt(k) == \E a \in 1..Len(attempts) : attempts[a].at = k

\* The name of entry k was attempted at an earlier entry.
AlreadyTried(k) ==
  \E a \in 1..Len(attempts) : attempts[a].at < k /\ attempts[a].model = modelsToTry[k]

LastAttempt == attempts[Len(attempts)]

\* The response of the catch block carries the error e.
Carries(e) ==
  /\ caught = Caught(e)
  /\ mresp.mentioned = "No" /\ mresp.positions = <<>> /\ mresp.position = NullPosition
  /\ mresp.providerStatus = (IF e.hasResponse THEN e.status ELSE 0)
  /\ mresp.providerDetail = (IF e.hasResponse THEN e ELSE NoErr)

\* The attempts are made in the order of modelsToTry, only a 404 is followed
\* by another attempt, an attempt failing otherwise ends the request in the
\* error response, a success ends the loop, and when the loop has passed
\* every model with 404 the error response carries the last error.
AttemptsInOrder ==
  /\ \A a \in 1..Len(attempts) : attempts[a].model = modelsToTry[attempts[a].at]
  /\ \A a, b \in 1..Len(attempts) : a < b => attempts[a].at < attempts[b].at
  /\ \A a \in 1..(Len(attempts) - 1) : attempts[a].outcome = "404"
  /\ (attempts # <<>> /\ LastAttempt.outcome = "error")
       => pc = "error_response" /\ Carries(LastAttempt.err)
  /\ (attempts # <<>> /\ LastAttempt.outcome = "ok")
       => pc \in {"loop_exit", "have_response"} /\ apiRespSet
  /\ (pc = "error_response" /\ \A a \in 1..Len(attempts) : attempts[a].outcome = "404")
       => /\ attempts # <<>>
          /\ mi = Len(modelsToTry)
          /\ Carries(LastAttempt.err)
  /\ pc = "have_response" => (attempts # <<>> /\ LastAttempt.outcome = "ok")

\* C22: the attempts follow the order of modelsToTry; after a 404 the next
\* model is attempted, the loop passing over a model only when its name was
\* already tried; an attempt failing otherwise ends the request in the error
\* response, a success ends the loop, and when every attempt fails with 404
\* the request ends in the error response carrying the last error.
C22_Claim ==
  /\ AttemptsInOrder
  /\ \A k \in 1..mi : ~AttemptedAt(k) => AlreadyTried(k)

\* The same with the models the loop passes over being those of line 179.
C22_WithSkipOfLine179 ==
  /\ AttemptsInOrder
  /\ \A k \in 1..mi :
       ~AttemptedAt(k) <=> skipModel(modelsToTry, k, removeModelsPrefix(googleModel))


====
